---- MODULE Spec2Model ----
(***************************************************************************)
(* A model of package pemutil (src/pemutil.go): the Store of decoded       *)
(* crypto primitives, DecodePEM's block loop and its per-label dispatch,   *)
(* PEM.Load's loop over sources, GeneratePublicKeys and EncodePrimitive.   *)
(*                                                                         *)
(* Byte strings are abstracted to what the x509 parsers can tell about     *)
(* them: a DER value is a record [enc, id] naming the encoding the bytes   *)
(* are valid in ("garbage" for none) and the key or certificate they       *)
(* carry.  A PEM buffer is a sequence of items, each either a well-framed  *)
(* armored block (Type, Bytes) or a stretch of text pem.Decode cannot      *)
(* frame (framed = FALSE).                                                 *)
(*                                                                         *)
(* Load ranges over its PEM slice one item at a time and DecodePEM reads   *)
(* its buffer one block at a time; neither looks ahead, so the model draws *)
(* each source when the range loop reaches it.                             *)
(***************************************************************************)
EXTENDS Integers, Sequences, FiniteSets, TLC

VARIABLES
    store,   \* the Store handed to every call: BlockType -> primitive
    pc,      \* "idle" (no call running), "load" (in Load's range loop),
             \* "decode" (in DecodePEM's block loop)
    call,    \* the API call running, or the last one that returned
    i,       \* Load: index of the next item of the PEM slice
    buf,     \* DecodePEM: the bytes not yet consumed
    block,   \* DecodePEM: the block pem.Decode returned last
    err,     \* the error the last finished call returned (NoError for nil)
    out,     \* the object given to and bytes returned by the last EncodePrimitive
    pre,     \* history: the Store as it was when the call started
    hist,    \* history: the blocks the call has dispatched without error
    input,   \* history: the buffer items the call has been given, in order
    used,    \* number of buffer items fed to this Store so far
    ser,     \* the bytes and the error the last Store.Bytes returned
    fresh,   \* a second Store, for decoding what Store.Bytes returned
    parsed   \* the bytes given to and the result of the last parsePKCSPrivateKey

vars == <<store, pc, call, i, buf, block, err, out, pre, hist, input, used,
          ser, fresh, parsed>>

(* ------------------------------ bounds --------------------------------- *)

\* Buffer items decoded into one Store before the caller makes a new one.
MaxBlocks == 2

\* Items of one PEM slice.
MaxSources == 2

(* ---------------------------- block types ------------------------------ *)

PrivateKey == "PRIVATE KEY"

PublicKey == "PUBLIC KEY"

RSAPrivateKey == "RSA PRIVATE KEY"

ECPrivateKey == "EC PRIVATE KEY"

Certificate == "CERTIFICATE"

BlockTypes == {PrivateKey, PublicKey, RSAPrivateKey, ECPrivateKey, Certificate}

(* ------------------------- bytes and primitives ------------------------ *)

\* DER bytes: the encoding they are valid in and what they encode.
DER(enc, id) == [enc |-> enc, id |-> id]

\* A Go value held in a Store or given to EncodePrimitive.  Raw bytes keep
\* the DER record they are; a typed primitive keeps only its identity.
Raw(b) == [type |-> "[]byte", enc |-> b.enc, id |-> b.id]

Prim(type, id) == [type |-> type, enc |-> "", id |-> id]

RSAPriv(id) == Prim("*rsa.PrivateKey", id)

ECPriv(id) == Prim("*ecdsa.PrivateKey", id)

RSAPub(id) == Prim("*rsa.PublicKey", id)

ECPub(id) == Prim("*ecdsa.PublicKey", id)

Cert(id) == Prim("*x509.Certificate", id)

NilValue == Prim("nil", "")

\* Bytes(v): the DER record a []byte value holds.
BytesOf(v) == DER(v.enc, v.id)

\* EC keys on a curve the x509 package has no OID for (a caller-built key;
\* the parsers never produce one).
UnnamedCurve == {"eX"}

(* ------------------------------- errors -------------------------------- *)

Error(msg, arg) == [msg |-> msg, arg |-> arg]

NoError == Error("nil", "")

Ok(v) == [key |-> v, err |-> NoError]

Fail(e) == [key |-> NilValue, err |-> e]

(* ------------------------- crypto/x509 parsers ------------------------- *)

ParsePKCS1PrivateKey(b) ==
    IF b.enc = "pkcs1" THEN Ok(RSAPriv(b.id))
    ELSE Fail(Error("x509: failed to parse PKCS#1 private key", ""))

ParsePKCS8PrivateKey(b) ==
    CASE b.enc = "pkcs8-rsa" -> Ok(RSAPriv(b.id))
      [] b.enc = "pkcs8-ec"  -> Ok(ECPriv(b.id))
      [] OTHER -> Fail(Error("x509: failed to parse PKCS#8 private key", ""))

ParseECPrivateKey(b) ==
    IF b.enc = "sec1" THEN Ok(ECPriv(b.id))
    ELSE Fail(Error("x509: failed to parse EC private key", ""))

ParsePKIXPublicKey(b) ==
    CASE b.enc = "pkix-rsa" -> Ok(RSAPub(b.id))
      [] b.enc = "pkix-ec"  -> Ok(ECPub(b.id))
      [] OTHER -> Fail(Error("x509: failed to parse PKIX public key", ""))

ParseCertificate(b) ==
    IF b.enc = "cert" THEN Ok(Cert(b.id))
    ELSE Fail(Error("x509: failed to parse certificate", ""))

\* Mutant: PKCS8 first, PKCS1 only when PKCS8 failed.
parsePKCSPrivateKeyPKCS8First(b) ==
    LET r == ParsePKCS8PrivateKey(b)
    IN  IF r.err # NoError THEN ParsePKCS1PrivateKey(b) ELSE Ok(r.key)

\* parsePKCSPrivateKey: PKCS1 first, PKCS8 only when PKCS1 failed.
parsePKCSPrivateKey(b) ==
    LET r == ParsePKCS1PrivateKey(b)
    IN  IF r.err # NoError THEN ParsePKCS8PrivateKey(b) ELSE Ok(r.key)

\* The x509 parsers parsePKCSPrivateKey(b) calls, in the order it calls them.
parsersTried(b) ==
    IF ParsePKCS1PrivateKey(b).err # NoError
    THEN <<"ParsePKCS1PrivateKey", "ParsePKCS8PrivateKey">>
    ELSE <<"ParsePKCS1PrivateKey">>

(* ----------------------------- encoding/pem ---------------------------- *)

Block(type, bytes) == [framed |-> TRUE, Type |-> type, Bytes |-> bytes]

\* Text that holds no complete BEGIN/END block ("----", an unterminated block).
Junk == [framed |-> FALSE, Type |-> "", Bytes |-> DER("garbage", "g1")]

NoBlock == [framed |-> FALSE, Type |-> "nil", Bytes |-> DER("", "")]

\* Mutant: the block found is not taken off the data.
pemDecodeKeepsRest(data) ==
    LET found == {k \in 1..Len(data) : data[k].framed}
    IN  IF found = {} THEN [block |-> NoBlock, rest |-> data]
        ELSE LET k == CHOOSE m \in found : \A n \in found : m <= n
             IN  [block |-> data[k], rest |-> data]

\* pem.Decode(data): the first well-framed block of data and what follows
\* it, skipping whatever it cannot frame; (nil, data) when there is none.
pemDecode(data) ==
    LET found == {k \in 1..Len(data) : data[k].framed}
    IN  IF found = {} THEN [block |-> NoBlock, rest |-> data]
        ELSE LET k == CHOOSE m \in found : \A n \in found : m <= n
             IN  [block |-> data[k], rest |-> SubSeq(data, k + 1, Len(data))]

\* pem.EncodeToMemory(&pem.Block{Type, Bytes}): one armored block.
pemEncodeToMemory(type, bytes) == <<Block(type, bytes)>>

(* ------------------------ crypto/x509 marshallers ---------------------- *)

Marshalled(b) == [bytes |-> b, err |-> NoError]

MarshalFail(e) == [bytes |-> DER("", ""), err |-> e]

MarshalPKCS1PrivateKey(v) == DER("pkcs1", v.id)

\* Mutant: the EC key is marshalled into the PKCS#8 container.
MarshalECPrivateKeyPKCS8(v) ==
    IF v.id \in UnnamedCurve
    THEN MarshalFail(Error("x509: unknown elliptic curve", ""))
    ELSE Marshalled(DER("pkcs8-ec", v.id))

MarshalECPrivateKey(v) ==
    IF v.id \in UnnamedCurve
    THEN MarshalFail(Error("x509: unknown elliptic curve", ""))
    ELSE Marshalled(DER("sec1", v.id))

MarshalPKIXPublicKey(v) ==
    CASE v.type = "*rsa.PublicKey" -> Marshalled(DER("pkix-rsa", v.id))
      [] v.type = "*ecdsa.PublicKey" /\ v.id \notin UnnamedCurve ->
             Marshalled(DER("pkix-ec", v.id))
      [] OTHER -> MarshalFail(Error("x509: unsupported public key type", ""))

(* -------------------------------- Store -------------------------------- *)

EmptyStore == [k \in {} |-> NilValue]

\* Mutant: an entry that is present is not overwritten.
PutIfAbsent(s, k, v) ==
    [x \in (DOMAIN s) \cup {k} |-> IF x \in DOMAIN s THEN s[x] ELSE v]

\* store[k] = v
Put(s, k, v) == [x \in (DOMAIN s) \cup {k} |-> IF x = k THEN v ELSE s[x]]

Stored(s, e) == [store |-> s, err |-> e]

(* ---------------------- DecodePEM: the block switch -------------------- *)

\* Mutant: the parsed key is stored under the block's own label.
decodePrivateKeyOwnLabel(s, b) ==
    LET r == parsePKCSPrivateKey(b.Bytes)
        key == IF r.err # NoError THEN Raw(b.Bytes) ELSE r.key
    IN  Stored(Put(s, PrivateKey, key), NoError)

\* case PrivateKey
decodePrivateKey(s, b) ==
    LET r == parsePKCSPrivateKey(b.Bytes)
    IN  IF r.err = NoError
        THEN Stored(Put(s, RSAPrivateKey, r.key), NoError)
        ELSE Stored(Put(s, PrivateKey, Raw(b.Bytes)), NoError)

\* Mutant: an unparseable public key is an error.
decodePublicKeyStrict(s, b) ==
    LET r == ParsePKIXPublicKey(b.Bytes)
    IN  IF r.err # NoError THEN Stored(s, r.err)
        ELSE Stored(Put(s, PublicKey, r.key), NoError)

\* case PublicKey
decodePublicKey(s, b) ==
    LET r == ParsePKIXPublicKey(b.Bytes)
        key == IF r.err # NoError THEN Raw(b.Bytes) ELSE r.key
    IN  Stored(Put(s, PublicKey, key), NoError)

\* Mutant: an unparseable RSA key is kept as raw bytes.
decodeRSAPrivateKeyOpaque(s, b) ==
    LET r == parsePKCSPrivateKey(b.Bytes)
        key == IF r.err # NoError THEN Raw(b.Bytes) ELSE r.key
    IN  Stored(Put(s, RSAPrivateKey, key), NoError)

\* case RSAPrivateKey
decodeRSAPrivateKey(s, b) ==
    LET r == parsePKCSPrivateKey(b.Bytes)
    IN  IF r.err # NoError THEN Stored(s, r.err)
        ELSE Stored(Put(s, RSAPrivateKey, r.key), NoError)

\* Mutant: a parsed EC key is stored under the generic PrivateKey key.
decodeECPrivateKeyAsPrivateKey(s, b) ==
    LET r == ParseECPrivateKey(b.Bytes)
    IN  IF r.err # NoError THEN Stored(s, r.err)
        ELSE Stored(Put(s, PrivateKey, r.key), NoError)

\* Mutant: an unparseable EC key is stored as raw bytes before the error
\* is returned.
decodeECPrivateKeyOpaque(s, b) ==
    LET r == ParseECPrivateKey(b.Bytes)
    IN  IF r.err # NoError THEN Stored(Put(s, ECPrivateKey, Raw(b.Bytes)), r.err)
        ELSE Stored(Put(s, ECPrivateKey, r.key), NoError)

\* case ECPrivateKey
decodeECPrivateKey(s, b) ==
    LET r == ParseECPrivateKey(b.Bytes)
    IN  IF r.err # NoError THEN Stored(s, r.err)
        ELSE Stored(Put(s, ECPrivateKey, r.key), NoError)

\* Mutant: an unparseable certificate is stored as raw bytes before the
\* error is returned.
decodeCertificateOpaque(s, b) ==
    LET r == ParseCertificate(b.Bytes)
    IN  IF r.err # NoError THEN Stored(Put(s, Certificate, Raw(b.Bytes)), r.err)
        ELSE Stored(Put(s, Certificate, r.key), NoError)

\* case Certificate
decodeCertificate(s, b) ==
    LET r == ParseCertificate(b.Bytes)
    IN  IF r.err # NoError THEN Stored(s, r.err)
        ELSE Stored(Put(s, Certificate, r.key), NoError)

\* Mutant: a block of unknown type is skipped.
decodeUnknownSkip(s, b) == Stored(s, NoError)

\* default
decodeUnknown(s, b) ==
    Stored(s, Error("DecodePEM: encountered unknown block type", b.Type))

\* switch BlockType(block.Type)
decodeBlock(s, b) ==
    CASE b.Type = PrivateKey    -> decodePrivateKey(s, b)
      [] b.Type = PublicKey     -> decodePublicKey(s, b)
      [] b.Type = RSAPrivateKey -> decodeRSAPrivateKey(s, b)
      [] b.Type = ECPrivateKey  -> decodeECPrivateKey(s, b)
      [] b.Type = Certificate   -> decodeCertificate(s, b)
      [] OTHER                  -> decodeUnknown(s, b)

ErrInvalidPEM == Error("DecodePEM: invalid PEM data", "")

Turn(s, d, e) ==
    [store |-> s, buf |-> d.rest, block |-> d.block, err |-> e]

\* Mutant: bytes that hold no block end the loop without an error.
decodeTurnStopsAtNil(s, data) ==
    LET d == pemDecode(data)
    IN  IF d.block = NoBlock
        THEN Turn(s, [block |-> NoBlock, rest |-> <<>>], NoError)
        ELSE LET r == decodeBlock(s, d.block)
             IN  Turn(r.store, d, r.err)

\* One turn of DecodePEM's loop on Store s and remaining bytes data: the
\* Store and the remaining bytes after it, the block split off, and the
\* error the turn returns (NoError when the loop goes on).
decodeTurn(s, data) ==
    LET d == pemDecode(data)
    IN  IF d.block = NoBlock
        THEN Turn(s, d, ErrInvalidPEM)
        ELSE LET r == decodeBlock(s, d.block)
             IN  Turn(r.store, d, r.err)

\* DecodePEM(s, data) as one call: the turns of its loop until the buffer
\* is empty or a turn fails.
RECURSIVE decodePEM(_, _)
decodePEM(s, data) ==
    IF Len(data) = 0 THEN Stored(s, NoError)
    ELSE LET t == decodeTurn(s, data)
         IN  IF t.err # NoError THEN Stored(t.store, t.err)
             ELSE decodePEM(t.store, t.buf)

(* ------------------------- GeneratePublicKeys -------------------------- *)

\* rsaPrivKey.Public(), ecdsaPrivKey.Public()
Public(key) ==
    IF key.type = "*rsa.PrivateKey" THEN RSAPub(key.id) ELSE ECPub(key.id)

\* Mutant: the public key replaces the private key it was derived from.
generateRSAPublicKeyInPlace(s) ==
    IF RSAPrivateKey \in DOMAIN s
    THEN IF s[RSAPrivateKey].type # "*rsa.PrivateKey"
         THEN Stored(s, Error("GeneratePublicKeys: expected RSAPrivateKey to be *rsa.PrivateKey", ""))
         ELSE Stored(Put(Put(s, PublicKey, Public(s[RSAPrivateKey])),
                         RSAPrivateKey, Public(s[RSAPrivateKey])), NoError)
    ELSE Stored(s, NoError)

\* the "generate rsa public key" block
generateRSAPublicKey(s) ==
    IF RSAPrivateKey \in DOMAIN s
    THEN IF s[RSAPrivateKey].type # "*rsa.PrivateKey"
         THEN Stored(s, Error("GeneratePublicKeys: expected RSAPrivateKey to be *rsa.PrivateKey", ""))
         ELSE Stored(Put(s, PublicKey, Public(s[RSAPrivateKey])), NoError)
    ELSE Stored(s, NoError)

\* the "generate ecdsa public key" block
generateECPublicKey(s) ==
    IF ECPrivateKey \in DOMAIN s
    THEN IF s[ECPrivateKey].type # "*ecdsa.PrivateKey"
         THEN Stored(s, Error("GeneratePublicKeys: expected ECPrivateKey to be *ecdsa.PrivateKey", ""))
         ELSE Stored(Put(s, PublicKey, Public(s[ECPrivateKey])), NoError)
    ELSE Stored(s, NoError)

generatePublicKeys(s) ==
    LET r == generateRSAPublicKey(s)
    IN  IF r.err # NoError THEN r ELSE generateECPublicKey(r.store)

(* --------------------------- EncodePrimitive --------------------------- *)

Encoded(pemBuf, e) == [pem |-> pemBuf, err |-> e]

ErrUnsupported == Error("EncodePrimitive: unsupported crypto primitive", "")

\* Mutant: a parsed certificate is encoded as a CERTIFICATE block.
encodePrimitiveWithCertificate(obj) ==
    CASE obj.type = "[]byte" ->
             Encoded(pemEncodeToMemory(PrivateKey, BytesOf(obj)), NoError)
      [] obj.type = "*rsa.PrivateKey" ->
             Encoded(pemEncodeToMemory(RSAPrivateKey, MarshalPKCS1PrivateKey(obj)), NoError)
      [] obj.type = "*ecdsa.PrivateKey" ->
             LET m == MarshalECPrivateKey(obj)
             IN  IF m.err # NoError THEN Encoded(<<>>, m.err)
                 ELSE Encoded(pemEncodeToMemory(ECPrivateKey, m.bytes), NoError)
      [] obj.type \in {"*rsa.PublicKey", "*ecdsa.PublicKey"} ->
             LET m == MarshalPKIXPublicKey(obj)
             IN  IF m.err # NoError THEN Encoded(<<>>, m.err)
                 ELSE Encoded(pemEncodeToMemory(PublicKey, m.bytes), NoError)
      [] obj.type = "*x509.Certificate" ->
             Encoded(pemEncodeToMemory(Certificate, DER("cert", obj.id)), NoError)
      [] OTHER -> Encoded(<<>>, ErrUnsupported)

encodePrimitive(obj) ==
    CASE obj.type = "[]byte" ->
             Encoded(pemEncodeToMemory(PrivateKey, BytesOf(obj)), NoError)
      [] obj.type = "*rsa.PrivateKey" ->
             Encoded(pemEncodeToMemory(RSAPrivateKey, MarshalPKCS1PrivateKey(obj)), NoError)
      [] obj.type = "*ecdsa.PrivateKey" ->
             LET m == MarshalECPrivateKey(obj)
             IN  IF m.err # NoError THEN Encoded(<<>>, m.err)
                 ELSE Encoded(pemEncodeToMemory(ECPrivateKey, m.bytes), NoError)
      [] obj.type \in {"*rsa.PublicKey", "*ecdsa.PublicKey"} ->
             LET m == MarshalPKIXPublicKey(obj)
             IN  IF m.err # NoError THEN Encoded(<<>>, m.err)
                 ELSE Encoded(pemEncodeToMemory(PublicKey, m.bytes), NoError)
      [] OTHER -> Encoded(<<>>, ErrUnsupported)

(* ------------------------------ Store.Bytes ---------------------------- *)

\* The orders in which "for _, p := range s" may visit the entries of s.
Orders(s) ==
    { o \in [1..Cardinality(DOMAIN s) -> DOMAIN s] :
          \A m, n \in DOMAIN o : o[m] = o[n] => m = n }

\* Mutant: an entry EncodePrimitive rejects is left out of the output.
RECURSIVE rangeBytesSkips(_, _, _)
rangeBytesSkips(s, order, res) ==
    IF order = <<>> THEN Encoded(res, NoError)
    ELSE LET e == encodePrimitive(s[Head(order)])
         IN  IF e.err # NoError THEN rangeBytesSkips(s, Tail(order), res)
             ELSE rangeBytesSkips(s, Tail(order), res \o e.pem)

\* Store.Bytes: the range loop over the entries still to visit, res the
\* buffer written so far.
RECURSIVE rangeBytes(_, _, _)
rangeBytes(s, order, res) ==
    IF order = <<>> THEN Encoded(res, NoError)
    ELSE LET e == encodePrimitive(s[Head(order)])
         IN  IF e.err # NoError THEN Encoded(<<>>, e.err)
             ELSE rangeBytes(s, Tail(order), res \o e.pem)

\* s.Bytes(), the map visited in the given order.
Bytes(s, order) == rangeBytes(s, order, <<>>)

(* -------------------------------- inputs ------------------------------- *)

Garbage == DER("garbage", "g1")

\* The armored blocks the inputs are made of: every recognised label with
\* bytes each of its parsers accepts and bytes none accepts, and labels
\* outside the five.
Blocks ==
    { Block(PrivateKey, DER("pkcs1", "r1")),
      Block(PrivateKey, DER("pkcs8-rsa", "r2")),
      Block(PrivateKey, DER("pkcs8-ec", "e1")),
      Block(PrivateKey, Garbage),
      Block(PublicKey, DER("pkix-rsa", "r1")),
      Block(PublicKey, Garbage),
      Block(RSAPrivateKey, DER("pkcs1", "r2")),
      Block(RSAPrivateKey, DER("pkcs8-rsa", "r1")),
      Block(RSAPrivateKey, Garbage),
      Block(ECPrivateKey, DER("sec1", "e1")),
      Block(ECPrivateKey, Garbage),
      Block(Certificate, DER("cert", "c1")),
      Block(Certificate, Garbage),
      Block("HEADERS", Garbage),
      Block("private key", DER("pkcs1", "r1")) }

Items == Blocks \cup {Junk}

\* Buffers of at most n items.
Buffers(n) == UNION { [1..k -> Items] : k \in 0..n }

\* Objects a caller hands to EncodePrimitive besides the Store's entries.
Objects ==
    { Raw(Garbage), RSAPriv("r1"), ECPriv("e1"), ECPriv("eX"), RSAPub("r1"),
      ECPub("e1"), ECPub("eX"), Cert("c1"), NilValue, Prim("string", "s") }

NoOut == [obj |-> NilValue, from |-> "", pem |-> <<>>, err |-> NoError]

NoBytes == [order |-> <<>>, pem |-> <<>>, err |-> NoError]

NoParse == [bytes |-> DER("", ""), key |-> NilValue, err |-> NoError, tried |-> <<>>]

\* DER byte strings: one or two in every encoding a parser accepts, and one
\* in none.
DERs ==
    { DER("pkcs1", "r1"), DER("pkcs1", "r2"), DER("pkcs8-rsa", "r1"),
      DER("pkcs8-rsa", "r2"), DER("pkcs8-ec", "e1"), DER("sec1", "e1"),
      DER("pkix-rsa", "r1"), DER("pkix-ec", "e1"), DER("cert", "c1"), Garbage }

\* The items of the buffers that are decoded and then serialized again:
\* those of Items, and the blocks of the key types still missing there.
SerialItems ==
    Items \cup { Block(RSAPrivateKey, DER("pkcs8-ec", "e1")),
                 Block(PublicKey, DER("pkix-ec", "e1")) }

SerialBuffers(n) == UNION { [1..k -> SerialItems] : k \in 0..n }

(* --------------------------------- Load -------------------------------- *)

\* Mutant: Load ignores the error DecodePEM returns.
loadIgnoresError(c, e) == c # "Load"

\* err = DecodePEM(store, buf); if err != nil { return err }
\* Whether the caller c of DecodePEM returns once DecodePEM has returned e:
\* Load only on an error, a direct call always.
loadReturns(c, e) == IF c = "Load" THEN e # NoError ELSE TRUE

(* ----------------------------- the machine ----------------------------- *)

Init ==
    /\ store = EmptyStore
    /\ pc = "idle"
    /\ call = "none"
    /\ i = 0
    /\ buf = <<>>
    /\ block = NoBlock
    /\ err = NoError
    /\ out = NoOut
    /\ pre = EmptyStore
    /\ hist = <<>>
    /\ input = <<>>
    /\ used = 0
    /\ ser = NoBytes
    /\ fresh = EmptyStore
    /\ parsed = NoParse

\* A call begins: its locals are fresh and the history restarts.
Enter(name) ==
    /\ pc = "idle"
    /\ call' = name
    /\ i' = 0
    /\ block' = NoBlock
    /\ out' = NoOut
    /\ pre' = store
    /\ hist' = <<>>

\* The running call returns e.
Return(e) ==
    /\ pc' = "idle"
    /\ err' = e
    /\ buf' = <<>>

\* store := pemutil.Store{}
NewStore ==
    /\ Enter("Store{}")
    /\ store' = EmptyStore
    /\ used' = 0
    /\ input' = <<>>
    /\ UNCHANGED <<pc, buf, err, ser, fresh, parsed>>

\* PEM.Load(store) is called.
LoadCall ==
    /\ Enter("Load")
    /\ pc' = "load"
    /\ err' = NoError
    /\ input' = <<>>
    /\ UNCHANGED <<store, buf, used, ser, fresh, parsed>>

\* Load: the range over p is exhausted; return nil.
LoadReturn ==
    /\ pc = "load"
    /\ Return(NoError)
    /\ UNCHANGED <<store, call, i, block, out, pre, hist, input, used, ser, fresh, parsed>>

\* Load: p[i] is a string or an io.Reader and reading it fails.
LoadReadError ==
    /\ pc = "load"
    /\ i < MaxSources
    /\ \E e \in {Error("open: no such file or directory", ""), Error("error", "")} :
           Return(e)
    /\ UNCHANGED <<store, call, i, block, out, pre, hist, input, used, ser, fresh, parsed>>

\* Load: p[i] is neither a string, an io.Reader nor a []byte.
LoadUnrecognized ==
    /\ pc = "load"
    /\ i < MaxSources
    /\ Return(Error("Load: unrecognized type", "<nil>"))
    /\ UNCHANGED <<store, call, i, block, out, pre, hist, input, used, ser, fresh, parsed>>

\* Load: p[i] is read into buf and DecodePEM(store, buf) is called.
LoadDecode ==
    /\ pc = "load"
    /\ i < MaxSources
    /\ \E data \in Buffers(MaxBlocks - used) :
           /\ buf' = data
           /\ input' = input \o data
           /\ used' = used + Len(data)
    /\ pc' = "decode"
    /\ UNCHANGED <<store, call, i, block, err, out, pre, hist, ser, fresh, parsed>>

\* DecodePEM(store, buf) is called by the user.
DecodeCall ==
    /\ Enter("DecodePEM")
    /\ \E data \in Buffers(MaxBlocks - used) :
           /\ buf' = data
           /\ used' = used + Len(data)
    /\ pc' = "decode"
    /\ err' = NoError
    /\ input' = buf'
    /\ UNCHANGED <<store, ser, fresh, parsed>>

\* DecodePEM returns e.  Called by Load, the result is Load's err: Load
\* returns it when it is not nil and goes on to its next item otherwise.
DecodeExit(e) ==
    LET returns == loadReturns(call, e)
    IN  /\ err' = e
        /\ buf' = <<>>
        /\ pc' = IF returns THEN "idle" ELSE "load"
        /\ i' = IF returns THEN i ELSE i + 1

\* DecodePEM: one turn of "for len(buf) > 0".
DecodeStep ==
    /\ pc = "decode"
    /\ Len(buf) > 0
    /\ LET t == decodeTurn(store, buf)
       IN  /\ block' = t.block
           /\ store' = t.store
           /\ IF t.err # NoError
              THEN /\ DecodeExit(t.err)
                   /\ UNCHANGED hist
              ELSE /\ buf' = t.buf
                   /\ hist' = Append(hist, t.block)
                   /\ UNCHANGED <<pc, err, i>>
    /\ UNCHANGED <<call, out, pre, input, used, ser, fresh, parsed>>

\* DecodePEM: len(buf) = 0, return nil.
DecodeReturn ==
    /\ pc = "decode"
    /\ Len(buf) = 0
    /\ DecodeExit(NoError)
    /\ UNCHANGED <<store, call, block, out, pre, hist, input, used, ser, fresh, parsed>>

\* GeneratePublicKeys(store)
GeneratePublicKeys ==
    /\ Enter("GeneratePublicKeys")
    /\ LET r == generatePublicKeys(store)
       IN  /\ store' = r.store
           /\ err' = r.err
    /\ input' = <<>>
    /\ UNCHANGED <<pc, buf, used, ser, fresh, parsed>>

\* EncodePrimitive(obj), obj an entry of the Store or a value of the caller's.
EncodePrimitive ==
    /\ pc = "idle"
    /\ call' = "EncodePrimitive"
    /\ \E from \in (DOMAIN store) \cup {""} :
       \E obj \in (IF from = "" THEN Objects ELSE {store[from]}) :
           LET r == encodePrimitive(obj)
           IN  /\ out' = [obj |-> obj, from |-> from, pem |-> r.pem, err |-> r.err]
               /\ err' = r.err
    /\ UNCHANGED <<store, pc, i, buf, block, pre, hist, input, used, ser, fresh, parsed>>

Next ==
    \/ NewStore
    \/ LoadCall
    \/ LoadReturn
    \/ LoadReadError
    \/ LoadUnrecognized
    \/ LoadDecode
    \/ DecodeCall
    \/ DecodeStep
    \/ DecodeReturn
    \/ GeneratePublicKeys
    \/ EncodePrimitive

Spec == Init /\ [][Next]_vars

\* The calls that run DecodePEM: on their own, and with the fairness that
\* DecodePEM's loop justifies.  The loop is straight-line code between two
\* reads of buf: a call that is in the loop takes its next turn, and
\* returns when buf is empty.
NextDecode ==
    \/ NewStore
    \/ LoadCall
    \/ LoadReturn
    \/ LoadDecode
    \/ DecodeCall
    \/ DecodeStep
    \/ DecodeReturn

FairSpec ==
    Init /\ [][NextDecode]_vars /\ WF_vars(DecodeStep) /\ WF_vars(DecodeReturn)

(* ------------------- decode, serialize, decode again ------------------- *)

\* DecodePEM(store, data) into the empty Store, as one call.
DecodeWhole ==
    /\ call = "none"
    /\ \E data \in SerialBuffers(MaxBlocks) :
           LET r == decodePEM(store, data)
           IN  /\ store' = r.store
               /\ err' = r.err
               /\ input' = data
    /\ call' = "DecodePEM"
    /\ UNCHANGED <<pc, i, buf, block, out, pre, hist, used, ser, fresh, parsed>>

\* GeneratePublicKeys(store) after a DecodePEM that returned nil.
GenerateAfterDecode ==
    /\ call = "DecodePEM"
    /\ err = NoError
    /\ LET r == generatePublicKeys(store)
       IN  /\ store' = r.store
           /\ err' = r.err
    /\ call' = "GeneratePublicKeys"
    /\ UNCHANGED <<pc, i, buf, block, out, pre, hist, input, used, ser, fresh, parsed>>

\* store.Bytes()
StoreBytes ==
    /\ call \in {"DecodePEM", "GeneratePublicKeys"}
    /\ \E order \in Orders(store) :
           LET r == Bytes(store, order)
           IN  /\ ser' = [order |-> order, pem |-> r.pem, err |-> r.err]
               /\ err' = r.err
    /\ call' = "Store.Bytes"
    /\ UNCHANGED <<store, pc, i, buf, block, out, pre, hist, input, used, fresh, parsed>>

\* DecodePEM(fresh, b), b the bytes store.Bytes() returned with a nil error.
DecodeBytes ==
    /\ call = "Store.Bytes"
    /\ ser.err = NoError
    /\ LET r == decodePEM(fresh, ser.pem)
       IN  /\ fresh' = r.store
           /\ err' = r.err
    /\ call' = "DecodePEM(Bytes)"
    /\ UNCHANGED <<store, pc, i, buf, block, out, pre, hist, input, used, ser, parsed>>

\* parsePKCSPrivateKey(b)
ParseKey ==
    /\ call = "none"
    /\ \E b \in DERs :
           LET r == parsePKCSPrivateKey(b)
           IN  /\ parsed' = [bytes |-> b, key |-> r.key, err |-> r.err,
                             tried |-> parsersTried(b)]
               /\ err' = r.err
    /\ call' = "parsePKCSPrivateKey"
    /\ UNCHANGED <<store, pc, i, buf, block, out, pre, hist, input, used, ser, fresh>>

NextSerial ==
    \/ DecodeWhole
    \/ GenerateAfterDecode
    \/ StoreBytes
    \/ DecodeBytes
    \/ ParseKey

SpecSerial == Init /\ [][NextSerial]_vars

(* ======================================================================= *)
(*                              Properties                                 *)
(* ======================================================================= *)

\* The well-framed blocks of a buffer, in order.
Framed(seq) == SelectSeq(seq, LAMBDA x : x.framed)

\* h is an initial segment of seq.
Prefix(h, seq) == Len(h) <= Len(seq) /\ SubSeq(seq, 1, Len(h)) = h

\* Stores s and t agree on every key other than k.
SameExcept(s, t, k) ==
    \A x \in ((DOMAIN s) \cup (DOMAIN t)) \ {k} :
        x \in DOMAIN s /\ x \in DOMAIN t /\ s[x] = t[x]

\* The result of the parser(s) the dispatch rules assign to b's label.
Parsed(b) ==
    CASE b.Type \in {PrivateKey, RSAPrivateKey} -> parsePKCSPrivateKey(b.Bytes)
      [] b.Type = PublicKey    -> ParsePKIXPublicKey(b.Bytes)
      [] b.Type = ECPrivateKey -> ParseECPrivateKey(b.Bytes)
      [] b.Type = Certificate  -> ParseCertificate(b.Bytes)
      [] OTHER -> Fail(Error("DecodePEM: encountered unknown block type", b.Type))

\* b carries one of the labels that promise a format and its bytes break it.
HardFails(b) ==
    b.Type \in {RSAPrivateKey, ECPrivateKey, Certificate} /\ Parsed(b).err # NoError

\* b is fatal to the decode call that meets it.
Fatal(b) == b.Type \notin BlockTypes \/ HardFails(b)

\* The key and the value the dispatch rules make a non-fatal block write.
WrittenKey(b) ==
    IF b.Type = PrivateKey /\ Parsed(b).err = NoError THEN RSAPrivateKey ELSE b.Type

WrittenValue(b) ==
    IF Parsed(b).err = NoError THEN Parsed(b).key ELSE Raw(b.Bytes)

\* The Store after the blocks of h have written to s one after the other.
RECURSIVE Effects(_, _)
Effects(s, h) ==
    IF h = <<>> THEN s
    ELSE Effects([x \in (DOMAIN s) \cup {WrittenKey(Head(h))} |->
                     IF x = WrittenKey(Head(h)) THEN WrittenValue(Head(h)) ELSE s[x]],
                 Tail(h))

Decoding == call \in {"Load", "DecodePEM"}

\* A step of the DecodePEM loop that splits off a block.
SplitsBlock == pc = "decode" /\ Len(buf) > 0 /\ block'.framed

C2_DegradeToOpaque ==
    [][ (SplitsBlock
            /\ \/ block'.Type = PrivateKey
                    /\ ParsePKCS1PrivateKey(block'.Bytes).err # NoError
                    /\ ParsePKCS8PrivateKey(block'.Bytes).err # NoError
               \/ block'.Type = PublicKey
                    /\ ParsePKIXPublicKey(block'.Bytes).err # NoError)
        => /\ pc' = "decode"
           /\ err' = NoError
           /\ block'.Type \in DOMAIN store'
           /\ store'[block'.Type] = Raw(block'.Bytes)
           /\ BytesOf(store'[block'.Type]) = block'.Bytes
           /\ SameExcept(store, store', block'.Type)
           /\ buf' = pemDecode(buf).rest ]_vars

\* Two unparseable blocks, one of each label, were decoded in one call that
\* returned nil, and both are in the Store as raw bytes.
C2_Witness ==
    /\ pc = "idle" /\ Decoding /\ err = NoError
    /\ hist = <<Block(PrivateKey, Garbage), Block(PublicKey, Garbage)>>
    /\ store[PrivateKey] = Raw(Garbage)
    /\ store[PublicKey] = Raw(Garbage)

(* ---- C3 ---- *)
BadRSABlock(x) ==
    /\ x.framed
    /\ x.Type = RSAPrivateKey
    /\ ParsePKCS1PrivateKey(x.Bytes).err # NoError
    /\ ParsePKCS8PrivateKey(x.Bytes).err # NoError

HasBadRSABlock == \E n \in 1..Len(input) : BadRSABlock(input[n])

\* C3 as claimed: a decode call whose input holds an RSA PRIVATE KEY block
\* that fails PKCS#1 and PKCS#8 parsing returns an error and leaves the
\* Store as it was before the call.
C3_StoreUnmodified ==
    (pc = "idle" /\ Decoding /\ HasBadRSABlock)
        => (err # NoError /\ store = pre)

\* C3 amended: such a call returns an error and the bad block writes
\* nothing, but the blocks dispatched before the failure stay written: the
\* Store is the Store before the call with their entries, and equals the
\* Store before the call when there are none.
C3_BadRSAFails ==
    (pc = "idle" /\ Decoding /\ HasBadRSABlock)
        => /\ err # NoError
           /\ \A n \in 1..Len(hist) : ~BadRSABlock(hist[n])
           /\ store = Effects(pre, hist)
           /\ (hist = <<>> => store = pre)

\* A good block and then the bad RSA block: the call failed on the RSA
\* block and the Store has changed.
C3_Witness ==
    /\ pc = "idle" /\ Decoding
    /\ Len(hist) = 1
    /\ block = Block(RSAPrivateKey, Garbage)
    /\ err = ParsePKCS8PrivateKey(Garbage).err
    /\ store # pre

(* ---- C4 ---- *)
\* C4: once DecodePEM has split off an RSA PRIVATE KEY, EC PRIVATE KEY or
\* CERTIFICATE block that its label's parser rejects, the call has returned
\* the parser's error, the Store holds what the blocks before it wrote and
\* nothing for the block itself, and no later block was dispatched.
C4_HardFail ==
    (Decoding /\ block.framed /\ HardFails(block))
        => /\ pc = "idle"
           /\ err = Parsed(block).err
           /\ store = Effects(pre, hist)
           /\ Prefix(hist, Framed(input))
           /\ Len(Framed(input)) > Len(hist)
           /\ Framed(input)[Len(hist) + 1] = block

\* A bad certificate after a good block: the call returned the certificate
\* parser's error and the Store holds no certificate.
C4_Witness ==
    /\ pc = "idle" /\ Decoding
    /\ block = Block(Certificate, Garbage)
    /\ Len(hist) = 1
    /\ err = ParseCertificate(Garbage).err
    /\ Certificate \notin DOMAIN store

(* ---- C5 ---- *)
\* C5: a block whose label is none of the five block types makes the call
\* return the unknown-block-type error naming the label, whether DecodePEM
\* was called directly or by Load: nothing is stored and the block is not
\* counted as dispatched.
C5_UnknownBlockType ==
    [][ (SplitsBlock /\ block'.Type \notin BlockTypes)
        => /\ pc' = "idle"
           /\ err' = Error("DecodePEM: encountered unknown block type", block'.Type)
           /\ store' = store
           /\ hist' = hist ]_vars

\* A block labelled in lower case, after a good block, ended the call.
C5_Witness ==
    /\ pc = "idle" /\ Decoding
    /\ block = Block("private key", DER("pkcs1", "r1"))
    /\ err = Error("DecodePEM: encountered unknown block type", "private key")
    /\ Len(hist) = 1
    /\ store = Effects(pre, hist)

(* ---- C6 ---- *)
\* The error a fatal block makes DecodePEM return.
FailureOf(b) == Parsed(b).err

SourceErrors ==
    { Error("open: no such file or directory", ""), Error("error", ""),
      Error("Load: unrecognized type", "<nil>") }

\* C6: a Load that has met a failure has returned, with that failure's
\* error; the blocks it dispatched are exactly the well-framed blocks given
\* to it before the failure, in order; the Store is the Store before the
\* call with what those blocks wrote; the failing block, if the failure is
\* a block's, is the first block not dispatched, and no block or source
\* after it was touched.
C6_PartialSuccess ==
    (call = "Load" /\ err # NoError)
        => /\ pc = "idle"
           /\ store = Effects(pre, hist)
           /\ Prefix(hist, Framed(input))
           /\ \A n \in 1..Len(hist) : ~Fatal(hist[n])
           /\ IF Len(hist) < Len(Framed(input))
              THEN /\ block = Framed(input)[Len(hist) + 1]
                   /\ Fatal(block)
                   /\ err = FailureOf(block)
              ELSE err \in SourceErrors \cup {ErrInvalidPEM}

\* The first source was decoded whole, the second failed at its first
\* block: the Store holds the first source's entry.
C6_Witness ==
    /\ call = "Load" /\ pc = "idle" /\ err # NoError
    /\ i = 1
    /\ Len(hist) = 1
    /\ Len(input) = 2
    /\ block = input[2]
    /\ DOMAIN pre = {}
    /\ DOMAIN store = {WrittenKey(hist[1])}

(* ---- C7 ---- *)
\* The positions of h whose block writes to key k.
Writers(h, k) == {n \in 1..Len(h) : WrittenKey(h[n]) = k}

LastOf(S) == CHOOSE m \in S : \A n \in S : n <= m

\* C7: after a Load or DecodePEM call that returned nil, every well-framed
\* block of the input was dispatched, in input order; each key some block
\* wrote to holds the value of the last block that wrote to it, and the
\* other keys are as they were before the call.
C7_LastWriteWins ==
    (pc = "idle" /\ Decoding /\ err = NoError)
        => /\ hist = Framed(input)
           /\ DOMAIN store = (DOMAIN pre) \cup {WrittenKey(hist[n]) : n \in 1..Len(hist)}
           /\ \A k \in DOMAIN store :
                 IF Writers(hist, k) = {}
                 THEN store[k] = pre[k]
                 ELSE store[k] = WrittenValue(hist[LastOf(Writers(hist, k))])

\* An RSA PRIVATE KEY block and then a parseable PRIVATE KEY block: the
\* RSAPrivateKey entry is the second block's key.
C7_Witness ==
    /\ pc = "idle" /\ Decoding /\ err = NoError
    /\ hist = <<Block(RSAPrivateKey, DER("pkcs1", "r2")),
                Block(PrivateKey, DER("pkcs1", "r1"))>>
    /\ store[RSAPrivateKey] = RSAPriv("r1")

(* ---- C8 ---- *)
\* The input ends in bytes from which no block can be split.
MalformedTail == Len(input) > 0 /\ ~input[Len(input)].framed

\* C8 as claimed, on inputs whose well-framed blocks can all be decoded: a
\* call whose input ends in malformed framing fails with the invalid-PEM
\* error before any block is dispatched, the Store unmodified, whatever
\* precedes the malformed part.
C8_FailsBeforeAnyDispatch ==
    (pc = "idle" /\ Decoding /\ MalformedTail
        /\ \A n \in 1..Len(input) : input[n].framed => ~Fatal(input[n]))
        => (err = ErrInvalidPEM /\ store = pre /\ hist = <<>>)

\* C8 amended: such a call fails, and fails with the invalid-PEM error when
\* the loop reaches the malformed remainder, that is after it has dispatched
\* every well-framed block before it (a fatal block among them ends the call
\* with its own error first).  The Store then holds what those blocks wrote;
\* it is unmodified when no well-framed block precedes the malformed part.
\* The invalid-PEM error is returned in no other case.
C8_InvalidPEMAtRemainder ==
    /\ (pc = "idle" /\ Decoding /\ MalformedTail)
          => /\ err # NoError
             /\ store = Effects(pre, hist)
             /\ Prefix(hist, Framed(input))
             /\ IF hist = Framed(input)
                THEN err = ErrInvalidPEM
                ELSE err = FailureOf(Framed(input)[Len(hist) + 1])
             /\ (Framed(input) = <<>> => (err = ErrInvalidPEM /\ store = pre))
    /\ (Decoding /\ err = ErrInvalidPEM)
          => (pc = "idle" /\ MalformedTail /\ hist = Framed(input))

\* A well-framed block and then unframeable bytes: invalid PEM data, with
\* the block's entry in the Store.
C8_Witness ==
    /\ pc = "idle" /\ call = "DecodePEM"
    /\ err = ErrInvalidPEM
    /\ Len(input) = 2 /\ input[1].framed /\ ~input[2].framed
    /\ hist = <<input[1]>>
    /\ store # pre

(* ---- C9 ---- *)
\* C9: GeneratePublicKeys on a Store holding nothing but an RSA private key
\* under RSAPrivateKey returns nil, puts that key's public key under
\* PublicKey and leaves the private key as it was; no other key appears.
C9_GenerateFromRSAOnly ==
    (call = "GeneratePublicKeys"
        /\ DOMAIN pre = {RSAPrivateKey}
        /\ pre[RSAPrivateKey].type = "*rsa.PrivateKey")
        => /\ err = NoError
           /\ DOMAIN store = {RSAPrivateKey, PublicKey}
           /\ store[RSAPrivateKey] = pre[RSAPrivateKey]
           /\ store[PublicKey].type = "*rsa.PublicKey"
           /\ store[PublicKey].id = pre[RSAPrivateKey].id

C9_Witness ==
    /\ call = "GeneratePublicKeys"
    /\ pre = [k \in {RSAPrivateKey} |-> RSAPriv("r2")]
    /\ store[PublicKey] = RSAPub("r2")

(* ---- C10 ---- *)
\* The label the claim assigns to each kind of primitive.
LabelOf(v) ==
    CASE v.type = "[]byte" -> PrivateKey
      [] v.type = "*rsa.PrivateKey" -> RSAPrivateKey
      [] v.type = "*ecdsa.PrivateKey" -> ECPrivateKey
      [] v.type \in {"*rsa.PublicKey", "*ecdsa.PublicKey"} -> PublicKey
      [] OTHER -> ""

\* The serialization the claim assigns to each kind of primitive.
SerializationOf(v) ==
    CASE v.type = "[]byte" -> BytesOf(v)
      [] v.type = "*rsa.PrivateKey" -> DER("pkcs1", v.id)
      [] v.type = "*ecdsa.PrivateKey" -> DER("sec1", v.id)
      [] v.type = "*rsa.PublicKey" -> DER("pkix-rsa", v.id)
      [] v.type = "*ecdsa.PublicKey" -> DER("pkix-ec", v.id)
      [] OTHER -> DER("", "")

\* The x509 serializers have no encoding for v.
Unserializable(v) ==
    v.type \in {"*ecdsa.PrivateKey", "*ecdsa.PublicKey"} /\ v.id \in UnnamedCurve

\* C10 as claimed: every opaque byte string, RSA or EC private key and RSA
\* or ECDSA public key is encoded, under its fixed label; every other
\* value gets the unsupported-primitive error and no bytes.
C10_EveryKeyEncoded ==
    call = "EncodePrimitive"
        => IF LabelOf(out.obj) # ""
           THEN /\ out.err = NoError
                /\ out.pem = <<Block(LabelOf(out.obj), SerializationOf(out.obj))>>
           ELSE out.err = ErrUnsupported /\ out.pem = <<>>

\* C10 amended: as claimed, except that an EC private key or ECDSA public
\* key the x509 serializer rejects (a curve it does not know) yields the
\* serializer's error, not the unsupported-primitive error, and no bytes.
\* The label never depends on the Store key the value was under.
C10_FixedLabels ==
    call = "EncodePrimitive"
        => CASE LabelOf(out.obj) # "" /\ ~Unserializable(out.obj) ->
                    /\ out.err = NoError
                    /\ out.pem = <<Block(LabelOf(out.obj), SerializationOf(out.obj))>>
             [] LabelOf(out.obj) # "" /\ Unserializable(out.obj) ->
                    /\ out.err \notin {NoError, ErrUnsupported}
                    /\ out.pem = <<>>
             [] OTHER -> out.err = ErrUnsupported /\ out.pem = <<>>

\* Raw bytes that were stored under PublicKey are encoded as a PRIVATE KEY
\* block.
C10_Witness ==
    /\ call = "EncodePrimitive"
    /\ out.from = PublicKey
    /\ out.obj = Raw(Garbage)
    /\ out.pem = <<Block(PrivateKey, Garbage)>>

(* ------------------------------- C11 ----------------------------------- *)

\* The call sequence decode, Store.Bytes, decode again has got as far as
\* Store.Bytes on the Store that DecodePEM made of a single well-framed
\* block, DecodePEM having returned nil.
RoundTrip ==
    /\ call \in {"Store.Bytes", "DecodePEM(Bytes)"}
    /\ Len(input) = 1
    /\ input[1].framed
    /\ decodePEM(EmptyStore, input) = Stored(store, NoError)

\* The single block of the input was parsed into a typed primitive.
TypedPath == \A k \in DOMAIN store : store[k].type # "[]byte"

UnrecognizedSource ==
    /\ call = "Load"
    /\ pc = "load"
    /\ err'.msg = "Load: unrecognized type"

\* C12: a source at position i of none of the three recognised shapes makes
\* Load return an error that identifies the position index i; the Store is
\* not modified by that source and no later source is processed.
C12_IdentifiesPosition ==
    [][UnrecognizedSource =>
          /\ err'.arg = ToString(i)
          /\ store' = store
          /\ pc' = "idle"]_vars

(* ------------------------------- C13 ----------------------------------- *)

\* Load has returned nil after decoding one source into an empty Store;
\* hist holds the blocks of that source.
LoadedOneSource ==
    /\ call = "Load"
    /\ pc = "idle"
    /\ err = NoError
    /\ i = 1
    /\ pre = EmptyStore

LabelsOf(h) == { h[n].Type : n \in 1..Len(h) }

\* The bytes of b are a PKCS#1 or PKCS#8 private key.
HoldsPKCSKey(b) == b.Bytes.enc \in {"pkcs1", "pkcs8-rsa", "pkcs8-ec"}

\* The key a block is stored under: its own label, except that a PRIVATE
\* KEY block holding a PKCS#1 or PKCS#8 key goes under RSAPrivateKey.
KeyOf(b) ==
    IF b.Type = PrivateKey /\ HoldsPKCSKey(b) THEN RSAPrivateKey ELSE b.Type

TypeErrors ==
    { "GeneratePublicKeys: expected RSAPrivateKey to be *rsa.PrivateKey",
      "GeneratePublicKeys: expected ECPrivateKey to be *ecdsa.PrivateKey" }

\* C14: on a Store built from the empty Store by DecodePEM and Load calls,
\* the value under RSAPrivateKey, if present, is an RSA private key and the
\* value under ECPrivateKey, if present, is an EC private key; hence
\* GeneratePublicKeys never returns its type-consistency error.
C14_PrivateKeysTyped ==
    /\ RSAPrivateKey \in DOMAIN store => store[RSAPrivateKey].type = "*rsa.PrivateKey"
    /\ ECPrivateKey \in DOMAIN store => store[ECPrivateKey].type = "*ecdsa.PrivateKey"
    /\ (call = "GeneratePublicKeys" /\ pc = "idle") => err.msg \notin TypeErrors

(* ------------------------------- C15 ----------------------------------- *)

\* parsePKCSPrivateKey has returned; parsed holds its argument and results.
ParsedKey == call = "parsePKCSPrivateKey"

PKCS1Error == Error("x509: failed to parse PKCS#1 private key", "")

PKCS8Error == Error("x509: failed to parse PKCS#8 private key", "")

\* C15: parsePKCSPrivateKey tries PKCS#1 first and PKCS#8 only if PKCS#1
\* fails.  When PKCS#1 succeeds its key is returned and PKCS#8 is never
\* consulted; when both fail the error returned is the PKCS#8 error and the
\* PKCS#1 error is discarded; when only PKCS#8 succeeds its key is returned
\* with no error.
C15_PKCS1ThenPKCS8 ==
    ParsedKey =>
        LET b == parsed.bytes
        IN  /\ Head(parsed.tried) = "ParsePKCS1PrivateKey"
            /\ b.enc = "pkcs1" =>
                   /\ parsed.key = RSAPriv(b.id)
                   /\ parsed.err = NoError
                   /\ parsed.tried = <<"ParsePKCS1PrivateKey">>
            /\ b.enc # "pkcs1" =>
                   parsed.tried = <<"ParsePKCS1PrivateKey", "ParsePKCS8PrivateKey">>
            /\ b.enc = "pkcs8-rsa" => (parsed.key = RSAPriv(b.id) /\ parsed.err = NoError)
            /\ b.enc = "pkcs8-ec" => (parsed.key = ECPriv(b.id) /\ parsed.err = NoError)
            /\ b.enc \notin {"pkcs1", "pkcs8-rsa", "pkcs8-ec"} =>
                   (parsed.key = NilValue /\ parsed.err = PKCS8Error /\ parsed.err # PKCS1Error)

\* Bytes that neither parser accepts have been tried with both.
C15_Witness ==
    /\ ParsedKey
    /\ parsed.bytes = Garbage
    /\ parsed.tried = <<"ParsePKCS1PrivateKey", "ParsePKCS8PrivateKey">>
    /\ parsed.err = PKCS8Error

(* ------------------------------- C16 ----------------------------------- *)

\* The Go types of fully parsed primitives.
ParsedTypes ==
    { "*rsa.PrivateKey", "*ecdsa.PrivateKey", "*rsa.PublicKey",
      "*ecdsa.PublicKey", "*x509.Certificate" }

\* C16: after any sequence of DecodePEM and Load calls on an initially
\* empty Store, every key of the Store is one of the five block kinds,
\* every value is a fully parsed primitive or raw bytes, and raw bytes
\* occur only under PrivateKey and PublicKey.
C16_StoreInvariant ==
    /\ DOMAIN store \subseteq BlockTypes
    /\ \A k \in DOMAIN store :
           /\ store[k].type \in ParsedTypes \cup {"[]byte"}
           /\ store[k].type = "[]byte" => k \in {PrivateKey, PublicKey}
           /\ store[k].type \in ParsedTypes => store[k].enc = ""

\* A decode call has left raw bytes under PrivateKey next to a parsed
\* certificate.
C16_Witness ==
    /\ Decoding
    /\ pc = "idle"
    /\ DOMAIN store = {PrivateKey, Certificate}
    /\ store[PrivateKey] = Raw(Garbage)
    /\ store[Certificate] = Cert("c1")

(* ------------------------------- C17 ----------------------------------- *)

\* EncodePrimitive has an armored block for v.
Encodable(v) == LabelOf(v) # "" /\ ~Unserializable(v)

\* C17: Store.Bytes is all-or-nothing.  If every entry of the Store is
\* encodable it returns one armored block per entry, concatenated in the
\* order the entries were visited; if any entry is not encodable (a
\* certificate, say) it returns an error and no bytes, whatever the order,
\* so a Store holding a certificate is never serialized.
C17_AllOrNothing ==
    call = "Store.Bytes" =>
        /\ ser.order \in Orders(store)
        /\ (\A k \in DOMAIN store : Encodable(store[k])) =>
               /\ ser.err = NoError
               /\ Len(ser.pem) = Cardinality(DOMAIN store)
               /\ \A n \in 1..Len(ser.pem) :
                      LET v == store[ser.order[n]]
                      IN  ser.pem[n] = Block(LabelOf(v), SerializationOf(v))
        /\ (\E k \in DOMAIN store : ~Encodable(store[k])) =>
               (ser.err # NoError /\ ser.pem = <<>>)
        /\ (\E k \in DOMAIN store : store[k].type = "*x509.Certificate") =>
               (ser.err = ErrUnsupported /\ ser.pem = <<>>)

\* Store.Bytes has visited an encodable key before the certificate and
\* returned no bytes.
C17_Witness ==
    /\ call = "Store.Bytes"
    /\ ser.order = <<RSAPrivateKey, Certificate>>
    /\ store[RSAPrivateKey].type = "*rsa.PrivateKey"
    /\ ser.err = ErrUnsupported
    /\ ser.pem = <<>>

(* ------------------------------- C18 ----------------------------------- *)

\* One turn of DecodePEM's loop, or its return.
LoopTurn == pc = "decode"

\* The turn split one block off buf and dispatched it; the loop goes on
\* with strictly fewer bytes.
MoreInputRemains ==
    /\ pc' = "decode"
    /\ Len(buf') < Len(buf)
    /\ block'.framed
    /\ hist' = Append(hist, block')
    /\ err' = NoError

\* The loop ends with success, no bytes remaining.
Exhausted ==
    /\ pc' # "decode"
    /\ Len(buf) = 0
    /\ err' = NoError
    /\ hist' = hist

\* The loop ends with an error, and nothing more is dispatched.
FatalError ==
    /\ pc' = "idle"
    /\ Len(buf) > 0
    /\ err' # NoError
    /\ hist' = hist

\* C18: the DecodePEM loop terminates on every finite input.  Each turn
\* either strictly shortens the remaining bytes by splitting off one block
\* or ends in the fatal-error state; the loop ends in exactly one of
\* exhausted (success, only when no bytes remain) and fatal error, after
\* which no further block is dispatched; and every call that enters the
\* loop leaves it.
C18_LoopTerminates ==
    /\ [][LoopTurn => (MoreInputRemains \/ Exhausted \/ FatalError)]_vars
    /\ [](LoopTurn => <>(pc # "decode"))

\* DecodePEM has returned nil after two turns of its loop.
C18_Witness ==
    /\ call = "DecodePEM"
    /\ pc = "idle"
    /\ err = NoError
    /\ Len(hist) = 2
    /\ Len(input) = 2

====
